---- MODULE Spec2Model ----
(***************************************************************************)
(* Model of the WebGL image picker (src/public/webgl_image_picker.js): the *)
(* pick -> read -> decode -> resize -> encode -> chunked emission pipeline *)
(* and the bridge to the Unity host.                                       *)
(***************************************************************************)
EXTENDS Integers, Sequences, FiniteSets, TLC

(***************************************************************************)
(* Configuration (webgl_image_picker.js lines 13-22).                      *)
(***************************************************************************)
UNITY_GAMEOBJECT == "ImageReceiver"
UNITY_METHOD_CHUNK == "OnImageChunk"
UNITY_METHOD_DONE == "OnImageTransferComplete"
\* The source sets CHUNK_SIZE = 32 * 1024.  The model scales it down so that
\* payloads of several chunks can be enumerated; it is a bound of the model.
CHUNK_SIZE == 3
MAX_WIDTH == 1280
MAX_HEIGHT == 1280
MIN_SIZE == 200

(***************************************************************************)
(* IEEE-754 binary64 arithmetic, as far as the resize computation uses it. *)
(* A positive double is [m |-> <<a2, a1, a0>>, e |-> exponent] with value  *)
(* (a2 * 2^54 + a1 * 2^27 + a0) * 2^e and 2^52 <= mantissa < 2^53.         *)
(* The mantissa is kept in three limbs of 27 bits so that every machine    *)
(* operation stays below 2^31.                                             *)
(***************************************************************************)
Limb == 2^27
TopBit == 2^25       \* the middle limb of 2^52
BigZero == <<0, 0, 0>>
BigOfInt(k) == <<0, k \div Limb, k % Limb>>
BigIsZero(x) == x = BigZero
BigOdd(x) == x[3] % 2 = 1
BigLess(x, y) ==
  \/ x[1] < y[1]
  \/ x[1] = y[1] /\ x[2] < y[2]
  \/ x[1] = y[1] /\ x[2] = y[2] /\ x[3] < y[3]
BigAdd(x, y) ==
  LET s0 == x[3] + y[3]
      s1 == x[2] + y[2] + s0 \div Limb
      s2 == x[1] + y[1] + s1 \div Limb
  IN  <<s2, s1 % Limb, s0 % Limb>>
\* x - y, for x >= y
BigSub(x, y) ==
  LET b0 == IF x[3] < y[3] THEN 1 ELSE 0
      d0 == x[3] - y[3] + b0 * Limb
      b1 == IF x[2] - b0 < y[2] THEN 1 ELSE 0
      d1 == x[2] - b0 - y[2] + b1 * Limb
  IN  <<x[1] - b1 - y[1], d1, d0>>
BigDouble(x) == BigAdd(x, x)
BigHalf(x) ==
  <<x[1] \div 2, x[2] \div 2 + (x[1] % 2) * (Limb \div 2),
    x[3] \div 2 + (x[2] % 2) * (Limb \div 2)>>
Big2p52 == <<0, TopBit, 0>>
Big2p53 == <<0, 2 * TopBit, 0>>
\* the integer a Big holds, for values below 2^31
BigToInt(x) == x[2] * Limb + x[3]

\* Round the exact value (m + guard/2 + sticky-part) * 2^e to the nearest
\* double, ties to even: shift right until the mantissa has 53 bits.  The
\* arguments of the next round are bound by a quantifier so that they are
\* evaluated before it.
RECURSIVE RoundPack(_, _, _, _)
RoundPack(m, e, guard, sticky) ==
  IF ~BigLess(m, Big2p53)
  THEN CHOOSE r \in {RoundPack(h, e + 1, g, s) :
                       h \in {BigHalf(m)}, g \in {BigOdd(m)},
                       s \in {sticky \/ guard}} : TRUE
  ELSE LET up == guard /\ (sticky \/ BigOdd(m))
           r == IF up THEN BigAdd(m, BigOfInt(1)) ELSE m
       IN  IF r = Big2p53 THEN [m |-> Big2p52, e |-> e + 1]
           ELSE [m |-> r, e |-> e]

\* m * 2^n and floor(m / 2^n).  The recursion halves n, and the first half
\* is bound by a quantifier so that it is evaluated before the second.
RECURSIVE ShiftLeft(_, _)
ShiftLeft(m, n) ==
  IF n <= 0 THEN m
  ELSE IF n = 1 THEN BigDouble(m)
  ELSE CHOOSE r \in {ShiftLeft(s, n - n \div 2) : s \in {ShiftLeft(m, n \div 2)}} : TRUE

RECURSIVE ShiftRight(_, _)
ShiftRight(m, n) ==
  IF n <= 0 THEN m
  ELSE IF n = 1 THEN BigHalf(m)
  ELSE CHOOSE r \in {ShiftRight(s, n - n \div 2) : s \in {ShiftRight(m, n \div 2)}} : TRUE

\* floor(log2(k)) for k >= 1
RECURSIVE Log2(_)
Log2(k) == IF k < 2 THEN 0 ELSE 1 + Log2(k \div 2)

\* A positive integer below 2^31 as a double (exact).
FromInt(k) == [m |-> ShiftLeft(BigOfInt(k), 52 - Log2(k)), e |-> Log2(k) - 52]

\* One step of binary long division by d: st = <<quotient, remainder>>
DivStep(st, d) ==
  LET bit == ~BigLess(st[2], d)
      r1 == IF bit THEN BigSub(st[2], d) ELSE st[2]
      q1 == IF bit THEN BigAdd(BigDouble(st[1]), BigOfInt(1)) ELSE BigDouble(st[1])
  IN  <<q1, BigDouble(r1)>>

\* n steps of the long division (n >= 1), halving n as the shifts do.
RECURSIVE DivSteps(_, _, _)
DivSteps(st, d, n) ==
  IF n = 1 THEN DivStep(st, d)
  ELSE CHOOSE r \in {DivSteps(s, d, n - n \div 2) : s \in {DivSteps(st, d, n \div 2)}} : TRUE

\* x / y, correctly rounded.  x.m / y.m lies in (1/2, 2), so 55 quotient
\* bits (weights 2^0 .. 2^-54) hold at least 54 significant bits; what is
\* left of the remainder is the sticky part.  The operands are bound by a
\* quantifier so that they are evaluated before the division starts.
FDiv(x, y) ==
  CHOOSE r \in
    {RoundPack(qr[1], a.e - b.e - 54, FALSE, ~BigIsZero(qr[2])) :
       qr \in {DivSteps(<<BigZero, a.m>>, b.m, 55) : a \in {x}, b \in {y}},
       a \in {x}, b \in {y}} : TRUE

\* m * k for a small non-negative integer k (exact)
RECURSIVE BigTimes(_, _)
BigTimes(m, k) ==
  IF k = 0 THEN BigZero
  ELSE CHOOSE r \in {IF k % 2 = 1 THEN BigAdd(h, m) ELSE h :
                       h \in {BigDouble(t) : t \in {BigTimes(m, k \div 2)}}} : TRUE

\* k * x for an integer 0 < k < 2^14, correctly rounded
FMulInt(k, x) ==
  CHOOSE r \in {RoundPack(p, a.e, FALSE, FALSE) :
                  p \in {BigTimes(a.m, k) : a \in {x}}, a \in {x}} : TRUE

\* Math.round: floor(x + 1/2), computed exactly as floor((floor(2x) + 1) / 2).
\* Used for 0 < x < 2^30 only, where x.e < 0.
MathRound(x) ==
  CHOOSE r \in {BigToInt(BigHalf(BigAdd(twice, BigOfInt(1)))) :
                  twice \in {ShiftRight(a.m, (0 - a.e) - 1) : a \in {x}}} : TRUE

(***************************************************************************)
(* The resize computation of resizeFileToDataUrl (lines 131-134).          *)
(***************************************************************************)
\* Variant: the height cap (line 134) is left out.
ResizeDims_WidthOnly(origW, origH, maxW, maxH) ==
  LET aspect == FDiv(FromInt(origW), FromInt(origH))
  IN  IF origW > maxW
      THEN [w |-> maxW, h |-> MathRound(FDiv(FromInt(maxW), aspect))]
      ELSE [w |-> origW, h |-> origH]

\* x < y for positive doubles
FLess(x, y) == x.e < y.e \/ (x.e = y.e /\ BigLess(x.m, y.m))
FMin(x, y) == IF FLess(y, x) THEN y ELSE x

\* Variant: the symmetric computation, scale = min(maxW / origW, maxH / origH,
\* 1) and target = (round(origW * scale), round(origH * scale)), in the same
\* arithmetic.
ResizeDims_Symmetric(origW, origH, maxW, maxH) ==
  CHOOSE r \in
    {[w |-> MathRound(FMulInt(origW, scale)),
      h |-> MathRound(FMulInt(origH, scale))] :
       scale \in {FMin(FMin(sw, sh), FromInt(1)) :
                    sw \in {FDiv(FromInt(maxW), FromInt(origW))},
                    sh \in {FDiv(FromInt(maxH), FromInt(origH))}}} : TRUE

ResizeDims(origW, origH, maxW, maxH) ==
  LET aspect == FDiv(FromInt(origW), FromInt(origH))
      w1 == IF origW > maxW THEN maxW ELSE origW
      h1 == IF origW > maxW THEN MathRound(FDiv(FromInt(w1), aspect)) ELSE origH
      h2 == IF h1 > maxH THEN maxH ELSE h1
      w2 == IF h1 > maxH THEN MathRound(FMulInt(h2, aspect)) ELSE w1
  IN  [w |-> w2, h |-> h2]

(***************************************************************************)
(* Strings are sequences of one-character strings.                         *)
(***************************************************************************)
MinOf(S) == CHOOSE x \in S : \A y \in S : x <= y

\* Variant: substr taken for substring(start, end), whose second argument is
\* an end index.
Substr_AsSubstring(s, start, length) ==
  SubSeq(s, start + 1, IF length < Len(s) THEN length ELSE Len(s))

\* String.prototype.substr(start, length), 0 <= start
Substr(s, start, length) ==
  SubSeq(s, start + 1, IF start + length < Len(s) THEN start + length ELSE Len(s))

\* String.prototype.substring(start)
Substring(s, start) == SubSeq(s, start + 1, Len(s))

\* String.prototype.indexOf(needle): the least 0-based index, or -1
IndexOf(s, needle) ==
  LET hits == {i \in 0..(Len(s) - Len(needle)) :
                 SubSeq(s, i + 1, i + Len(needle)) = needle}
  IN  IF hits = {} THEN -1 ELSE MinOf(hits)

Base64Marker == <<"b", "a", "s", "e", "6", "4", ",">>

\* stripDataUrlPrefix (lines 108-111)
stripDataUrlPrefix(dataUrl) ==
  LET idx == IndexOf(dataUrl, Base64Marker)
  IN  IF idx >= 0 THEN Substring(dataUrl, idx + 7) ELSE dataUrl

\* What FileReader.readAsDataURL yields for a JPEG blob whose base64 text is b64
DataUrlPrefix ==
  <<"d", "a", "t", "a", ":", "i", "m", "a", "g", "e", "/", "j", "p", "e", "g", ";">>
  \o Base64Marker
DataUrlOf(b64) == DataUrlPrefix \o b64

(***************************************************************************)
(* Inputs.                                                                 *)
(***************************************************************************)
MaxLen == 13        \* longest base64 payload
MaxCycles == 1      \* calls of sendFileToUnity / sendBase64ToUnity in a run
MaxPicks == 2       \* calls of WebGLImagePicker_OpenCamera / _OpenGallery in a run

Base64Alphabet == <<"Q", "k", "9", "+", "/">>
\* The base64 text of length L: position i holds a character that differs
\* from its four neighbours on either side.
Payload(L) == [i \in 1..L |-> Base64Alphabet[((i - 1) % Len(Base64Alphabet)) + 1]]
Payloads == {Payload(L) : L \in 0..MaxLen}

MB == 1024 * 1024
\* The size limit and the allow-list the specification attributes to the
\* validator; the source has neither.
MAX_BYTES == 5 * MB
ALLOWED_MIME_TYPES == {"image/jpeg", "image/png"}

\* Files the user may pick: declared size and type, the dimensions the image
\* decodes to, and the length of the base64 text its JPEG re-encoding has.
File(size, type, w, h, enc) ==
  [size |-> size, type |-> type, w |-> w, h |-> h, enc |-> enc]
Files ==
  { File(3 * MB, "image/jpeg", 3000, 1500, MaxLen),
    File(MAX_BYTES + 1, "image/jpeg", 2000, 1000, CHUNK_SIZE + 1),
    File(MB, "image/gif", 1000, 2000, CHUNK_SIZE),
    File(MB, "image/png", 200, 200, 1),
    File(MB, "image/png", 150, 150, 1),
    File(MB, "image/png", 199, 1000, 1),
    File(MB, "image/jpeg", 1000, 199, 1) }
NoFile == File(0, "", 0, 0, 0)
NoCanvas == [w |-> 0, h |-> 0]

VARIABLES
  unityInstance,   \* window.unityInstance && window.unityInstance.SendMessage
  globalSend,      \* window.SendMessage
  cyc,             \* per call of sendFileToUnity / sendBase64ToUnity: its progress
  calls,           \* calls of sendChunkToUnity / notifyUnityComplete, in order
  host,            \* SendMessage calls the host received, in order
  alerts,          \* alert() dialogs shown, in order
  console,         \* console.warn / console.error entries, in order
  rz,              \* resize computation run on its own: inputs and output
  cameraPermissionChecked,   \* the flag of line 260
  unitySendMessage,          \* typeof UnitySendMessage === "function"
  picks,           \* per call of WebGLImagePicker_OpenCamera / _OpenGallery
  srv              \* server.js: one GET /Build/:file request and its response

pickerVars == <<cameraPermissionChecked, unitySendMessage, picks>>
vars == <<unityInstance, globalSend, cyc, calls, host, alerts, console, rz,
          pickerVars, srv>>

Cycles == 1..MaxCycles
Picks == 1..MaxPicks

(***************************************************************************)
(* Unity send helpers (lines 79-105).  Each returns what one call adds to  *)
(* the host's inbox and to the console; throws says whether SendMessage    *)
(* throws in this call; c tags the entry with the calling cycle.           *)
(***************************************************************************)
HostMsg(via, method, payload, c) ==
  [via |-> via, obj |-> UNITY_GAMEOBJECT, method |-> method,
   payload |-> payload, cyc |-> c]
ConsoleEntry(level, text, c) == [level |-> level, text |-> text, cyc |-> c]

\* Variant: the last branch calls window.SendMessage without testing it.
SendMessageVia_Unguarded(method, payload, throws, c, errText, warnText) ==
  IF unityInstance
  THEN IF throws
       THEN [host |-> <<>>, console |-> <<ConsoleEntry("error", errText, c)>>]
       ELSE [host |-> <<HostMsg("unityInstance", method, payload, c)>>,
             console |-> <<>>]
  ELSE IF throws
       THEN [host |-> <<>>, console |-> <<ConsoleEntry("error", errText, c)>>]
       ELSE [host |-> <<HostMsg("window", method, payload, c)>>, console |-> <<>>]

SendMessageVia(method, payload, throws, c, errText, warnText) ==
  IF unityInstance
  THEN IF throws
       THEN [host |-> <<>>, console |-> <<ConsoleEntry("error", errText, c)>>]
       ELSE [host |-> <<HostMsg("unityInstance", method, payload, c)>>,
             console |-> <<>>]
  ELSE IF globalSend
  THEN IF throws
       THEN [host |-> <<>>, console |-> <<ConsoleEntry("error", errText, c)>>]
       ELSE [host |-> <<HostMsg("window", method, payload, c)>>, console |-> <<>>]
  ELSE [host |-> <<>>, console |-> <<ConsoleEntry("warn", warnText, c)>>]

sendChunkToUnity(chunk, throws, c) ==
  SendMessageVia(UNITY_METHOD_CHUNK, chunk, throws, c, "SendMessage error:",
                 "Unity instance not ready; chunk not sent now.")

notifyUnityComplete(throws, c) ==
  SendMessageVia(UNITY_METHOD_DONE, <<>>, throws, c, "NotifyComplete error:",
                 "Unity instance not ready for complete notify.")

(***************************************************************************)
(* sendBase64ToUnity (lines 158-164).                                      *)
(***************************************************************************)
\* Variant: the loop advances by one less than the chunk size.
RECURSIVE ChunksFrom_Overlap(_, _)
ChunksFrom_Overlap(base64String, i) ==
  IF i < Len(base64String)
  THEN <<Substr(base64String, i, CHUNK_SIZE)>>
       \o ChunksFrom_Overlap(base64String, i + CHUNK_SIZE - 1)
  ELSE <<>>

\* The chunks the for loop cuts, from offset i on
RECURSIVE ChunksFrom(_, _)
ChunksFrom(base64String, i) ==
  IF i < Len(base64String)
  THEN <<Substr(base64String, i, CHUNK_SIZE)>>
       \o ChunksFrom(base64String, i + CHUNK_SIZE)
  ELSE <<>>

SinkCall(fn, arg, c) == [fn |-> fn, arg |-> arg, cyc |-> c]

\* Variant: the completion is notified only when a chunk was sent.
EmitCalls_NoneWhenEmpty(base64String, c) ==
  LET chunks == ChunksFrom(base64String, 0)
  IN  IF chunks = <<>> THEN <<>>
      ELSE [k \in 1..Len(chunks) |-> SinkCall("sendChunkToUnity", chunks[k], c)]
           \o <<SinkCall("notifyUnityComplete", <<>>, c)>>

\* The calls sendBase64ToUnity makes, in order
EmitCalls(base64String, c) ==
  LET chunks == ChunksFrom(base64String, 0)
  IN  [k \in 1..Len(chunks) |-> SinkCall("sendChunkToUnity", chunks[k], c)]
      \o <<SinkCall("notifyUnityComplete", <<>>, c)>>

\* What call number k (from 0) of an emission does; throwing is the set of
\* call numbers in which SendMessage throws
CallEffect(call, k, throwing) ==
  IF call.fn = "sendChunkToUnity"
  THEN sendChunkToUnity(call.arg, k \in throwing, call.cyc)
  ELSE notifyUnityComplete(k \in throwing, call.cyc)

RECURSIVE Effects(_, _, _)
Effects(cs, k, throwing) ==
  IF k >= Len(cs) THEN [host |-> <<>>, console |-> <<>>]
  ELSE LET one == CallEffect(cs[k + 1], k, throwing)
           rest == Effects(cs, k + 1, throwing)
       IN  [host |-> one.host \o rest.host, console |-> one.console \o rest.console]

\* The SendMessage the helpers would call now
BridgeNow ==
  IF unityInstance THEN "unityInstance" ELSE IF globalSend THEN "window" ELSE "none"

\* Which SendMessage calls of an emission of n calls may throw: any set of
\* them, each call being caught on its own; none when there is no SendMessage
\* to call
ThrowSets(n) ==
  IF BridgeNow = "none" THEN {{}}
  ELSE SUBSET (0..(n - 1))

(***************************************************************************)
(* The pipeline: sendFileToUnity (lines 166-179) running                   *)
(* resizeFileToDataUrl (lines 114-155), one action per callback.  A        *)
(* rejection and the catch block that handles it run in the same turn of   *)
(* the event loop, and so does the emission after r2.onload: they are one  *)
(* action each.                                                            *)
(***************************************************************************)
Err(kind, message, width, height) ==
  [kind |-> kind, message |-> message, width |-> width, height |-> height]
NoErr == Err("none", "", 0, 0)

IdleCycle ==
  [pc |-> "idle", via |-> "", file |-> NoFile, err |-> NoErr, canvas |-> NoCanvas,
   base64 |-> <<>>, sentVia |-> "", throwing |-> {}, promise |-> "none"]

NoRz == [origW |-> 0, origH |-> 0, maxW |-> 0, maxH |-> 0, done |-> FALSE,
         w |-> 0, h |-> 0]

\* A call of WebGLImagePicker_OpenCamera / _OpenGallery that has not been made
IdlePick ==
  [pc |-> "idle", fn |-> "", asked |-> FALSE, grantsBefore |-> 0, result |-> "",
   input |-> "none", capture |-> FALSE, cyc |-> 0]

\* The change handler of openFileInput (lines 324-329) awaits
\* sendFileToUnity(f); when that promise settles for cycle c the handler goes
\* on in the same turn: inp.remove().
ChangeHandlerResumes(c) ==
  [p \in DOMAIN picks |->
     IF picks[p].pc = "processing" /\ picks[p].cyc = c
     THEN [picks[p] EXCEPT !.pc = "done", !.input = "removed"]
     ELSE picks[p]]

\* No request has reached the server
NoRequest == [file |-> "", exists |-> FALSE, done |-> FALSE, status |-> 0,
              sent |-> FALSE, headers |-> {}]

Init ==
  /\ unityInstance \in BOOLEAN
  /\ globalSend \in BOOLEAN
  /\ cyc = [c \in Cycles |-> IdleCycle]
  /\ calls = <<>>
  /\ host = <<>>
  /\ alerts = <<>>
  /\ console = <<>>
  /\ rz = NoRz
  /\ cameraPermissionChecked = FALSE
  /\ unitySendMessage = FALSE
  /\ picks = [p \in Picks |-> IdlePick]
  /\ srv = NoRequest

\* Cycles are numbered in the order in which they start.
NextCycle(c) ==
  /\ cyc[c].pc = "idle"
  /\ \A d \in DOMAIN cyc : d < c => cyc[d].pc # "idle"

\* The Unity loader publishes its instance / its global SendMessage.
UnityInstanceReady ==
  /\ ~unityInstance
  /\ unityInstance' = TRUE
  /\ UNCHANGED <<globalSend, cyc, calls, host, alerts, console, rz, pickerVars, srv>>

GlobalSendReady ==
  /\ ~globalSend
  /\ globalSend' = TRUE
  /\ UNCHANGED <<unityInstance, cyc, calls, host, alerts, console, rz, pickerVars,
                 srv>>

\* sendFileToUnity(file): resizeFileToDataUrl starts reader.readAsDataURL(file).
\* The caller says what becomes of picks.
sendFileToUnity(c, file) ==
  /\ NextCycle(c)
  /\ cyc' = [cyc EXCEPT ![c] = [@ EXCEPT !.pc = "reading", !.via = "file",
                                          !.file = file, !.promise = "pending"]]
  /\ UNCHANGED <<unityInstance, globalSend, calls, host, alerts, console, rz,
                 cameraPermissionChecked, unitySendMessage, srv>>

\* Variant: the catch block reports the error and throws it again.
Catch_Rethrow(c, e) ==
  /\ cyc' = [cyc EXCEPT ![c] = [@ EXCEPT !.pc = "rejected", !.err = e,
                                          !.promise = "rejected"]]
  /\ IF e.message = "MIN_DIMENSION"
     THEN /\ alerts' = Append(alerts, [kind |-> "tooSmall", width |-> e.width,
                                       height |-> e.height, min |-> MIN_SIZE,
                                       cyc |-> c])
          /\ UNCHANGED console
     ELSE /\ console' = Append(console,
                               ConsoleEntry("error", "sendFileToUnity error:", c))
          /\ alerts' = Append(alerts, [kind |-> "generic", width |-> 0,
                                       height |-> 0, min |-> 0, cyc |-> c])
  /\ picks' = ChangeHandlerResumes(c)
  /\ UNCHANGED <<unityInstance, globalSend, calls, host, rz,
                 cameraPermissionChecked, unitySendMessage, srv>>

\* The catch block of sendFileToUnity (lines 171-178): the error is reported
\* and the async function returns, which fulfils its promise
Catch(c, e) ==
  /\ cyc' = [cyc EXCEPT ![c] = [@ EXCEPT !.pc = "rejected", !.err = e,
                                          !.promise = "fulfilled"]]
  /\ IF e.message = "MIN_DIMENSION"
     THEN /\ alerts' = Append(alerts, [kind |-> "tooSmall", width |-> e.width,
                                       height |-> e.height, min |-> MIN_SIZE,
                                       cyc |-> c])
          /\ UNCHANGED console
     ELSE /\ console' = Append(console,
                               ConsoleEntry("error", "sendFileToUnity error:", c))
          /\ alerts' = Append(alerts, [kind |-> "generic", width |-> 0,
                                       height |-> 0, min |-> 0, cyc |-> c])
  /\ picks' = ChangeHandlerResumes(c)
  /\ UNCHANGED <<unityInstance, globalSend, calls, host, rz,
                 cameraPermissionChecked, unitySendMessage, srv>>

\* reader.onerror = reject
ReaderError(c) ==
  /\ cyc[c].pc = "reading"
  /\ Catch(c, Err("reader.onerror", "", 0, 0))

\* reader.onload: img.src = reader.result
ReaderLoad(c) ==
  /\ cyc[c].pc = "reading"
  /\ cyc' = [cyc EXCEPT ![c] = [@ EXCEPT !.pc = "decoding"]]
  /\ UNCHANGED <<unityInstance, globalSend, calls, host, alerts, console, rz,
                 pickerVars, srv>>

\* img.onerror = reject
ImgError(c) ==
  /\ cyc[c].pc = "decoding"
  /\ Catch(c, Err("img.onerror", "", 0, 0))

\* Variant: the image is rejected only when both dimensions are small.
TooSmall_Both(origW, origH) == origW < MIN_SIZE /\ origH < MIN_SIZE

\* The minimum-dimension test of img.onload (line 124)
TooSmall(origW, origH) == origW < MIN_SIZE \/ origH < MIN_SIZE

\* img.onload (lines 121-149): reject a small image, or size the canvas,
\* draw, and start toBlob
ImgLoad(c) ==
  /\ cyc[c].pc = "decoding"
  /\ LET origW == cyc[c].file.w
         origH == cyc[c].file.h
     IN  IF TooSmall(origW, origH)
         THEN Catch(c, Err("Error", "MIN_DIMENSION", origW, origH))
         ELSE /\ cyc' = [cyc EXCEPT ![c] =
                           [@ EXCEPT !.pc = "encoding",
                                     !.canvas = ResizeDims(origW, origH,
                                                           MAX_WIDTH, MAX_HEIGHT)]]
              /\ UNCHANGED <<unityInstance, globalSend, calls, host, alerts,
                             console, rz, pickerVars, srv>>

\* toBlob calls back with null (lines 141-144)
ToBlobNull(c) ==
  /\ cyc[c].pc = "encoding"
  /\ Catch(c, Err("Error", "Canvas toBlob returned null", 0, 0))

\* toBlob calls back with a blob: r2.readAsDataURL(blob)
ToBlob(c) ==
  /\ cyc[c].pc = "encoding"
  /\ cyc' = [cyc EXCEPT ![c] = [@ EXCEPT !.pc = "reading2"]]
  /\ UNCHANGED <<unityInstance, globalSend, calls, host, alerts, console, rz,
                 pickerVars, srv>>

\* r2.onerror = reject
Reader2Error(c) ==
  /\ cyc[c].pc = "reading2"
  /\ Catch(c, Err("r2.onerror", "", 0, 0))

\* Variant: the loop yields to the event loop after every call (an await in
\* its body), so each turn makes the next call of the emission only.
Emit_Yielding(c, via, base64String, throwing) ==
  LET cs == EmitCalls(base64String, c)
      k == Len(SelectSeq(calls, LAMBDA x : x.cyc = c))
      eff == CallEffect(cs[k + 1], k, throwing)
      last == k + 1 = Len(cs)
  IN  /\ calls' = Append(calls, cs[k + 1])
      /\ host' = host \o eff.host
      /\ console' = console \o eff.console
      /\ cyc' = [cyc EXCEPT ![c] =
                   IF last
                   THEN [@ EXCEPT !.pc = "sent", !.via = via,
                                  !.base64 = base64String,
                                  !.sentVia = BridgeNow,
                                  !.throwing = throwing,
                                  !.promise = "fulfilled"]
                   ELSE @]
      /\ picks' = IF last THEN ChangeHandlerResumes(c) ELSE picks
      /\ UNCHANGED <<unityInstance, globalSend, alerts, rz,
                     cameraPermissionChecked, unitySendMessage, srv>>

\* The body of sendBase64ToUnity run by cycle c: every chunk, then the
\* completion, without a suspension point in between.
Emit(c, via, base64String, throwing) ==
  LET cs == EmitCalls(base64String, c)
      eff == Effects(cs, 0, throwing)
  IN  /\ calls' = calls \o cs
      /\ host' = host \o eff.host
      /\ console' = console \o eff.console
      /\ cyc' = [cyc EXCEPT ![c] = [@ EXCEPT !.pc = "sent", !.via = via,
                                              !.base64 = base64String,
                                              !.sentVia = BridgeNow,
                                              !.throwing = throwing,
                                              !.promise = "fulfilled"]]
      /\ picks' = ChangeHandlerResumes(c)
      /\ UNCHANGED <<unityInstance, globalSend, alerts, rz,
                     cameraPermissionChecked, unitySendMessage, srv>>

\* r2.onload resolves with the data URL; sendFileToUnity strips the prefix
\* and emits (lines 147, 168-170)
Reader2Load(c) ==
  /\ cyc[c].pc = "reading2"
  /\ LET dataUrl == DataUrlOf(Payload(cyc[c].file.enc))
         base64 == stripDataUrlPrefix(dataUrl)
     IN  \E throwing \in ThrowSets(Len(EmitCalls(base64, c))) :
           Emit(c, "file", base64, throwing)

\* window.WebGLImagePicker.sendBase64ToUnity(base64String), called directly
\* (exposed at lines 250-253)
sendBase64ToUnity(c, base64String) ==
  /\ NextCycle(c)
  /\ \E throwing \in ThrowSets(Len(EmitCalls(base64String, c))) :
       Emit(c, "direct", base64String, throwing)

Next ==
  \/ UnityInstanceReady
  \/ GlobalSendReady
  \/ \E c \in Cycles, f \in Files : sendFileToUnity(c, f) /\ UNCHANGED picks
  \/ \E c \in Cycles : ReaderError(c)
  \/ \E c \in Cycles : ReaderLoad(c)
  \/ \E c \in Cycles : ImgError(c)
  \/ \E c \in Cycles : ImgLoad(c)
  \/ \E c \in Cycles : ToBlobNull(c)
  \/ \E c \in Cycles : ToBlob(c)
  \/ \E c \in Cycles : Reader2Error(c)
  \/ \E c \in Cycles : Reader2Load(c)
  \/ \E c \in Cycles, p \in Payloads : sendBase64ToUnity(c, p)

Spec == Init /\ [][Next]_vars

(***************************************************************************)
(* The picker entry points (lines 258-344): WebGLImagePicker_OpenCamera,   *)
(* WebGLImagePicker_OpenGallery, ensureCameraPermission, openFileInput and *)
(* notifyPermissionDenied.  A call runs up to its first pending promise    *)
(* (getUserMedia) in one action; what follows the settlement of that       *)
(* promise runs in the action of the settlement.                           *)
(***************************************************************************)
\* Files the user picks in the dialog: one that is emitted in two chunks and
\* one that is too small
PickFiles ==
  {f \in Files : f.enc = CHUNK_SIZE + 1 \/ (f.w < MIN_SIZE /\ f.h < MIN_SIZE)}

\* Calls are numbered in the order in which they are made.
NextPick(p) ==
  /\ picks[p].pc = "idle"
  /\ \A q \in DOMAIN picks : q < p => picks[q].pc # "idle"

\* getUserMedia calls that have resolved so far
Grants == Cardinality({q \in DOMAIN picks : picks[q].result = "granted"})

\* openFileInput(useCamera) (lines 311-332): the input is created, appended to
\* the body, given its change listener, and clicked
openFileInput(pick, useCamera) ==
  [pick EXCEPT !.pc = "dialog", !.input = "attached", !.capture = useCamera]

\* The UnitySendMessage call of notifyPermissionDenied, as the host receives it
DeniedMsg(p) ==
  [via |-> "UnitySendMessage", obj |-> "ImageReceiver",
   method |-> "OnCameraPermissionDenied", payload |-> <<>>, cyc |-> 0, pick |-> p]

\* notifyPermissionDenied (lines 334-342): what the host receives
notifyPermissionDenied(p) ==
  IF unitySendMessage THEN <<DeniedMsg(p)>> ELSE <<>>

\* ensureCameraPermission up to its first suspension (lines 262-266), for a
\* call of fn: with the flag set it returns true and the caller opens the
\* input in the same turn; otherwise getUserMedia is called and is pending.
ensureCameraPermission(p, fn) ==
  LET called == [picks[p] EXCEPT !.fn = fn, !.grantsBefore = Grants]
  IN  IF cameraPermissionChecked
      THEN openFileInput([called EXCEPT !.result = "cached"], fn = "camera")
      ELSE [called EXCEPT !.pc = "asking", !.asked = TRUE]

\* window.WebGLImagePicker_OpenCamera() (lines 279-291)
WebGLImagePicker_OpenCamera(p) ==
  /\ NextPick(p)
  /\ picks' = [picks EXCEPT ![p] = ensureCameraPermission(p, "camera")]
  /\ UNCHANGED <<unityInstance, globalSend, cyc, calls, host, alerts, console, rz,
                 cameraPermissionChecked, unitySendMessage, srv>>

\* window.WebGLImagePicker_OpenGallery() (lines 296-306)
WebGLImagePicker_OpenGallery(p) ==
  /\ NextPick(p)
  /\ picks' = [picks EXCEPT ![p] = ensureCameraPermission(p, "gallery")]
  /\ UNCHANGED <<unityInstance, globalSend, cyc, calls, host, alerts, console, rz,
                 cameraPermissionChecked, unitySendMessage, srv>>

\* getUserMedia resolves (lines 266-269): the tracks are stopped, the flag is
\* set, ensureCameraPermission returns true and the caller opens the input.
GetUserMediaResolve(p) ==
  /\ picks[p].pc = "asking"
  /\ cameraPermissionChecked' = TRUE
  /\ picks' = [picks EXCEPT ![p] =
                 openFileInput([@ EXCEPT !.result = "granted"], @.fn = "camera")]
  /\ UNCHANGED <<unityInstance, globalSend, cyc, calls, host, alerts, console, rz,
                 unitySendMessage, srv>>

\* Whether UnitySendMessage, the host's function, throws when
\* notifyPermissionDenied calls it (line 336): it is called only by
\* OpenCamera and only when it is a function.
NotifyThrows(p) ==
  IF picks[p].fn = "camera" /\ unitySendMessage THEN BOOLEAN ELSE {FALSE}

\* Variant: the catch block of ensureCameraPermission sets the flag too.
GetUserMediaReject_Cached(p) ==
  /\ picks[p].pc = "asking"
  /\ \E throws \in NotifyThrows(p) :
       /\ console' = Append(console, ConsoleEntry("warn", "Camera permission denied", 0))
                        \o (IF throws
                            THEN <<ConsoleEntry("error", "OpenCamera failed:", 0)>>
                            ELSE <<>>)
       /\ host' = IF picks[p].fn = "camera" /\ ~throws
                  THEN host \o notifyPermissionDenied(p)
                  ELSE host
  /\ cameraPermissionChecked' = TRUE
  /\ picks' = [picks EXCEPT ![p] =
                 IF picks[p].fn = "camera"
                 THEN [@ EXCEPT !.pc = "done", !.result = "refused"]
                 ELSE openFileInput([@ EXCEPT !.result = "refused"], FALSE)]
  /\ UNCHANGED <<unityInstance, globalSend, cyc, calls, alerts, rz,
                 unitySendMessage, srv>>

\* getUserMedia rejects (lines 270-273): ensureCameraPermission warns and
\* returns false.  OpenCamera then notifies the host and returns (lines
\* 282-285); when UnitySendMessage throws, the catch block of lines 288-290
\* logs the error and nothing reaches the host.  OpenGallery opens the input
\* all the same (lines 300-302).
GetUserMediaReject(p) ==
  /\ picks[p].pc = "asking"
  /\ \E throws \in NotifyThrows(p) :
       /\ console' = Append(console, ConsoleEntry("warn", "Camera permission denied", 0))
                        \o (IF throws
                            THEN <<ConsoleEntry("error", "OpenCamera failed:", 0)>>
                            ELSE <<>>)
       /\ host' = IF picks[p].fn = "camera" /\ ~throws
                  THEN host \o notifyPermissionDenied(p)
                  ELSE host
  /\ picks' = [picks EXCEPT ![p] =
                 IF picks[p].fn = "camera"
                 THEN [@ EXCEPT !.pc = "done", !.result = "refused"]
                 ELSE openFileInput([@ EXCEPT !.result = "refused"], FALSE)]
  /\ UNCHANGED <<unityInstance, globalSend, cyc, calls, alerts, rz,
                 cameraPermissionChecked, unitySendMessage, srv>>

\* The change event with a file (lines 324-326): sendFileToUnity(f) starts the
\* next cycle and the handler awaits it.
Change(p, f) ==
  /\ picks[p].pc = "dialog"
  /\ \E c \in DOMAIN cyc :
       /\ sendFileToUnity(c, f)
       /\ picks' = [picks EXCEPT ![p] = [@ EXCEPT !.pc = "processing", !.cyc = c]]

\* The change event without a file (lines 325-328): inp.remove()
ChangeNoFile(p) ==
  /\ picks[p].pc = "dialog"
  /\ picks' = [picks EXCEPT ![p] = [@ EXCEPT !.pc = "done", !.input = "removed"]]
  /\ UNCHANGED <<unityInstance, globalSend, cyc, calls, host, alerts, console, rz,
                 cameraPermissionChecked, unitySendMessage, srv>>

\* The user dismisses the dialog: no change event is dispatched, so the
\* listener of lines 324-329 never runs.
Dismiss(p) ==
  /\ picks[p].pc = "dialog"
  /\ picks' = [picks EXCEPT ![p] = [@ EXCEPT !.pc = "done"]]
  /\ UNCHANGED <<unityInstance, globalSend, cyc, calls, host, alerts, console, rz,
                 cameraPermissionChecked, unitySendMessage, srv>>

InitPick ==
  /\ unityInstance \in BOOLEAN
  /\ globalSend = FALSE
  /\ cyc = [c \in Picks |-> IdleCycle]
  /\ calls = <<>>
  /\ host = <<>>
  /\ alerts = <<>>
  /\ console = <<>>
  /\ rz = NoRz
  /\ cameraPermissionChecked = FALSE
  /\ unitySendMessage \in BOOLEAN
  /\ picks = [p \in Picks |-> IdlePick]
  /\ srv = NoRequest

NextPicker ==
  \/ \E p \in Picks : WebGLImagePicker_OpenCamera(p)
  \/ \E p \in Picks : WebGLImagePicker_OpenGallery(p)
  \/ \E p \in Picks : GetUserMediaResolve(p)
  \/ \E p \in Picks : GetUserMediaReject(p)
  \/ \E p \in Picks, f \in PickFiles : Change(p, f)
  \/ \E p \in Picks : ChangeNoFile(p)
  \/ \E p \in Picks : Dismiss(p)
  \/ \E c \in Picks : ReaderError(c)
  \/ \E c \in Picks : ReaderLoad(c)
  \/ \E c \in Picks : ImgError(c)
  \/ \E c \in Picks : ImgLoad(c)
  \/ \E c \in Picks : ToBlobNull(c)
  \/ \E c \in Picks : ToBlob(c)
  \/ \E c \in Picks : Reader2Error(c)
  \/ \E c \in Picks : Reader2Load(c)

SpecPick == InitPick /\ [][NextPicker]_vars

\* The entry points and the outcomes of getUserMedia alone: what decides
\* whether permission is requested and whether the file dialog opens.
NextPermission ==
  \/ \E p \in Picks : WebGLImagePicker_OpenCamera(p)
  \/ \E p \in Picks : WebGLImagePicker_OpenGallery(p)
  \/ \E p \in Picks : GetUserMediaResolve(p)
  \/ \E p \in Picks : GetUserMediaReject(p)

SpecPermission == InitPick /\ [][NextPermission]_vars

\* Overlapping cycles: window.WebGLImagePicker.sendFileToUnity called again
\* while earlier calls are still in flight (the change handler of line 326
\* makes the same call).
InitOverlap ==
  /\ unityInstance \in BOOLEAN
  /\ globalSend = FALSE
  /\ cyc = [c \in Picks |-> IdleCycle]
  /\ calls = <<>>
  /\ host = <<>>
  /\ alerts = <<>>
  /\ console = <<>>
  /\ rz = NoRz
  /\ cameraPermissionChecked = FALSE
  /\ unitySendMessage = FALSE
  /\ picks = [p \in Picks |-> IdlePick]
  /\ srv = NoRequest

NextOverlap ==
  \/ UnityInstanceReady
  \/ \E c \in Picks, f \in PickFiles : sendFileToUnity(c, f) /\ UNCHANGED picks
  \/ \E c \in Picks : ReaderError(c)
  \/ \E c \in Picks : ReaderLoad(c)
  \/ \E c \in Picks : ImgError(c)
  \/ \E c \in Picks : ImgLoad(c)
  \/ \E c \in Picks : ToBlobNull(c)
  \/ \E c \in Picks : ToBlob(c)
  \/ \E c \in Picks : Reader2Error(c)
  \/ \E c \in Picks : Reader2Load(c)

SpecOverlap == InitOverlap /\ [][NextOverlap]_vars

(***************************************************************************)
(* server.js: the handler of GET /Build/:file (lines 11-33).               *)
(***************************************************************************)
\* String.prototype.endsWith
endsWith(str, suffix) ==
  /\ Len(str) >= Len(suffix)
  /\ SubSeq(str, Len(str) - Len(suffix) + 1, Len(str)) = suffix

\* The Content-Type the handler sets for a .gz file (lines 23-29), if any
ContentTypeOf(file) ==
  IF endsWith(file, ".framework.js.gz") \/ endsWith(file, ".loader.js.gz")
  THEN {<<"Content-Type", "application/javascript">>}
  ELSE IF endsWith(file, ".wasm.gz")
  THEN {<<"Content-Type", "application/wasm">>}
  ELSE IF endsWith(file, ".data.gz")
  THEN {<<"Content-Type", "application/octet-stream">>}
  ELSE {}

\* The response to GET /Build/<file>: the status, whether res.sendFile was
\* called, and the headers set with res.setHeader
BuildResponse(file, exists) ==
  IF ~exists
  THEN [status |-> 404, sent |-> FALSE, headers |-> {}]
  ELSE [status |-> 200, sent |-> TRUE,
        headers |-> IF endsWith(file, ".gz")
                    THEN {<<"Content-Encoding", "gzip">>} \cup ContentTypeOf(file)
                    ELSE {}]

\* Names requested under /Build/
BuildStems == {"Build", "game.v2"}
BuildSuffixes ==
  {".framework.js.gz", ".loader.js.gz", ".wasm.gz", ".data.gz",
   ".symbols.json.gz", ".js.gz", ".gz", ".loader.js", ".framework.js", ".wasm",
   ".data", ".json", ".gzip", ".gz.bak", ".GZ", ""}
BuildNames == {stem \o suffix : stem \in BuildStems, suffix \in BuildSuffixes}

InitServer ==
  /\ unityInstance = FALSE
  /\ globalSend = FALSE
  /\ cyc = [c \in Cycles |-> IdleCycle]
  /\ calls = <<>>
  /\ host = <<>>
  /\ alerts = <<>>
  /\ console = <<>>
  /\ rz = NoRz
  /\ cameraPermissionChecked = FALSE
  /\ unitySendMessage = FALSE
  /\ picks = [p \in Picks |-> IdlePick]
  /\ srv \in {[NoRequest EXCEPT !.file = file, !.exists = exists] :
                file \in BuildNames, exists \in BOOLEAN}

\* The handler runs for the request of srv
GetBuildFile ==
  /\ ~srv.done
  /\ LET res == BuildResponse(srv.file, srv.exists)
     IN  srv' = [srv EXCEPT !.done = TRUE, !.status = res.status,
                            !.sent = res.sent, !.headers = res.headers]
  /\ UNCHANGED <<unityInstance, globalSend, cyc, calls, host, alerts, console, rz,
                 pickerVars>>

NextServer == GetBuildFile

SpecServer == InitServer /\ [][NextServer]_vars

(***************************************************************************)
(* The resize computation on its own, over a grid of image sizes and caps. *)
(***************************************************************************)
Spread == 2      \* image sizes this close to the default cap are all tried
ResizeSizes ==
  {200, 273, 427, 640, 1000, 1500, 1536, 2000, 2560, 3000}
  \cup ((MAX_WIDTH - Spread)..(MAX_WIDTH + Spread))
ResizeCaps == {MAX_WIDTH, 1000, 640, 100}

InitResize ==
  /\ unityInstance = FALSE
  /\ globalSend = FALSE
  /\ cyc = [c \in Cycles |-> IdleCycle]
  /\ calls = <<>>
  /\ host = <<>>
  /\ alerts = <<>>
  /\ console = <<>>
  /\ cameraPermissionChecked = FALSE
  /\ unitySendMessage = FALSE
  /\ picks = [p \in Picks |-> IdlePick]
  /\ srv = NoRequest
  /\ rz \in {[origW |-> ow, origH |-> oh, maxW |-> mw, maxH |-> mh,
              done |-> FALSE, w |-> 0, h |-> 0] :
               ow \in ResizeSizes, oh \in ResizeSizes,
               mw \in ResizeCaps, mh \in ResizeCaps}

\* Lines 131-137 for the image and the caps of rz
RunResize ==
  /\ ~rz.done
  /\ LET r == ResizeDims(rz.origW, rz.origH, rz.maxW, rz.maxH)
     IN  rz' = [rz EXCEPT !.done = TRUE, !.w = r.w, !.h = r.h]
  /\ UNCHANGED <<unityInstance, globalSend, cyc, calls, host, alerts, console,
                 pickerVars, srv>>

NextResize == RunResize

SpecResize == InitResize /\ [][NextResize]_vars

\* The resize computation under the default caps, as resizeFileToDataUrl(file)
\* is called (line 168), on images that pass the minimum-dimension test: sizes
\* around the caps, sizes whose scaled side is a half-integer, and very
\* elongated images.
AspectSizes ==
  {MIN_SIZE, 640, MAX_WIDTH, MAX_WIDTH + 1, 1467, 1536, 1564, 2048, 3000, 4096,
   512000, 512001, 600000}

InitAspect ==
  /\ unityInstance = FALSE
  /\ globalSend = FALSE
  /\ cyc = [c \in Cycles |-> IdleCycle]
  /\ calls = <<>>
  /\ host = <<>>
  /\ alerts = <<>>
  /\ console = <<>>
  /\ cameraPermissionChecked = FALSE
  /\ unitySendMessage = FALSE
  /\ picks = [p \in Picks |-> IdlePick]
  /\ srv = NoRequest
  /\ rz \in {[origW |-> ow, origH |-> oh, maxW |-> MAX_WIDTH, maxH |-> MAX_HEIGHT,
              done |-> FALSE, w |-> 0, h |-> 0] :
               ow \in AspectSizes, oh \in AspectSizes}

\* Lines 124-137 for the image of rz: the image passes the test of line 124
\* and the canvas is sized
RunResizeChecked ==
  /\ ~TooSmall(rz.origW, rz.origH)
  /\ RunResize

NextAspect == RunResizeChecked

SpecAspect == InitAspect /\ [][NextAspect]_vars

(***************************************************************************)
(* Properties.                                                             *)
(***************************************************************************)
CallsOf(c) == SelectSeq(calls, LAMBDA x : x.cyc = c)
HostOf(c) == SelectSeq(host, LAMBDA m : m.cyc = c)
ChunkCallsOf(c) == SelectSeq(CallsOf(c), LAMBDA x : x.fn = "sendChunkToUnity")
DoneCallsOf(c) == SelectSeq(CallsOf(c), LAMBDA x : x.fn = "notifyUnityComplete")
HostChunksOf(c) == SelectSeq(HostOf(c), LAMBDA m : m.method = UNITY_METHOD_CHUNK)
HostDonesOf(c) == SelectSeq(HostOf(c), LAMBDA m : m.method = UNITY_METHOD_DONE)
AlertsOf(c) == SelectSeq(alerts, LAMBDA a : a.cyc = c)
ConsoleOf(c) == SelectSeq(console, LAMBDA e : e.cyc = c)

RECURSIVE ConcatArgs(_)
ConcatArgs(xs) == IF xs = <<>> THEN <<>> ELSE Head(xs).arg \o ConcatArgs(Tail(xs))
RECURSIVE ConcatPayloads(_)
ConcatPayloads(ms) ==
  IF ms = <<>> THEN <<>> ELSE Head(ms).payload \o ConcatPayloads(Tail(ms))

Sent(c) == cyc[c].pc = "sent"
\* The emission of c reached a bridge and no SendMessage call threw
Delivered(c) == Sent(c) /\ cyc[c].sentVia # "none" /\ cyc[c].throwing = {}
CeilDiv(a, b) == (a + b - 1) \div b

\* C1: the chunks sendBase64ToUnity hands to sendChunkToUnity, concatenated in
\* the order of the calls, are the payload; and so are the chunks the host
\* receives when the bridge is there and no call throws.
C1_RoundTrip ==
  \A c \in Cycles :
    /\ Sent(c) => ConcatArgs(ChunkCallsOf(c)) = cyc[c].base64
    /\ Delivered(c) => ConcatPayloads(HostChunksOf(c)) = cyc[c].base64

C1_Witness ==
  \E c \in Cycles :
    /\ Delivered(c)
    /\ Len(cyc[c].base64) > 2 * CHUNK_SIZE
    /\ Len(cyc[c].base64) % CHUNK_SIZE # 0
    /\ Len(HostChunksOf(c)) = CeilDiv(Len(cyc[c].base64), CHUNK_SIZE)

\* C2: a payload of length L is cut into ceil(L / CHUNK_SIZE) chunks, chunk i
\* being the characters [i * CHUNK_SIZE, min((i + 1) * CHUNK_SIZE, L)), handed
\* over in ascending i: none is empty, all but the last have CHUNK_SIZE
\* characters, the last has 1..CHUNK_SIZE.
C2_ChunkShape ==
  \A c \in Cycles :
    Sent(c) =>
      LET b == cyc[c].base64
          L == Len(b)
          cs == ChunkCallsOf(c)
          n == Len(cs)
          Upper(i) == IF (i + 1) * CHUNK_SIZE < L THEN (i + 1) * CHUNK_SIZE ELSE L
      IN  /\ n = CeilDiv(L, CHUNK_SIZE)
          /\ \A i \in 0..(n - 1) :
               /\ cs[i + 1].arg = [j \in 1..(Upper(i) - i * CHUNK_SIZE) |->
                                     b[i * CHUNK_SIZE + j]]
               /\ Len(cs[i + 1].arg) >= 1
               /\ i < n - 1 => Len(cs[i + 1].arg) = CHUNK_SIZE
               /\ i = n - 1 => Len(cs[i + 1].arg) \in 1..CHUNK_SIZE

C2_Witness ==
  \E c \in Cycles :
    /\ Sent(c)
    /\ Len(ChunkCallsOf(c)) >= 3
    /\ Len(ChunkCallsOf(c)[Len(ChunkCallsOf(c))].arg) < CHUNK_SIZE

\* C3: an emission notifies completion exactly once, after its last chunk,
\* also when the payload is empty and there is no chunk; a cycle that has not
\* emitted has notified nothing.  With the bridge there and no call throwing
\* the host receives exactly that.
C3_CompletionOnce ==
  \A c \in Cycles :
    /\ ~Sent(c) => CallsOf(c) = <<>> /\ HostOf(c) = <<>>
    /\ Sent(c) =>
         /\ Len(DoneCallsOf(c)) = 1
         /\ CallsOf(c)[Len(CallsOf(c))].fn = "notifyUnityComplete"
         /\ cyc[c].base64 = <<>> => Len(CallsOf(c)) = 1
    /\ Delivered(c) =>
         /\ Len(HostDonesOf(c)) = 1
         /\ HostOf(c)[Len(HostOf(c))].method = UNITY_METHOD_DONE
         /\ Len(HostOf(c)) = Len(CallsOf(c))

C3_Witness ==
  \E c \in Cycles :
    /\ Delivered(c)
    /\ cyc[c].base64 = <<>>
    /\ Len(HostOf(c)) = 1
    /\ HostOf(c)[1].method = UNITY_METHOD_DONE

\* Call number k (from 0) of the emission of c is a chunk on which SendMessage threw
ThrewOnChunk(c, k) ==
  /\ k \in cyc[c].throwing
  /\ k + 1 <= Len(CallsOf(c))
  /\ CallsOf(c)[k + 1].fn = "sendChunkToUnity"

\* C4: when SendMessage throws on chunk k the pipeline aborts: no later chunk
\* is handed over, completion is not notified, and the failure is reported
\* (the call fails; sendFileToUnity shows its alert).
C4_SinkFailureAborts ==
  \A c \in Cycles :
    \A k \in cyc[c].throwing :
      ThrewOnChunk(c, k) =>
        /\ Len(CallsOf(c)) = k + 1
        /\ DoneCallsOf(c) = <<>>
        /\ HostDonesOf(c) = <<>>
        /\ cyc[c].pc = "rejected"
        /\ cyc[c].via = "file" => AlertsOf(c) # <<>>

\* C5: a file over MAX_BYTES is rejected with OVERSIZE before it is
\* read, and nothing is emitted for it.
C5_OversizeRejected ==
  \A c \in Cycles :
    (cyc[c].via = "file" /\ cyc[c].file.size > MAX_BYTES) =>
      /\ cyc[c].pc = "rejected"
      /\ cyc[c].err.message = "OVERSIZE"
      /\ CallsOf(c) = <<>>
      /\ HostOf(c) = <<>>

\* The reasons for which the code rejects a file
CodeRejection(e) ==
  \/ e.kind \in {"reader.onerror", "img.onerror", "r2.onerror"}
  \/ e.kind = "Error" /\ e.message \in {"MIN_DIMENSION", "Canvas toBlob returned null"}

\* C6: a file whose declared type is not allowed is rejected with
\* UNSUPPORTED_TYPE before the dimension check, and nothing is emitted for it.
C6_UnsupportedTypeRejected ==
  \A c \in Cycles :
    (cyc[c].via = "file" /\ cyc[c].file.type \notin ALLOWED_MIME_TYPES) =>
      /\ cyc[c].pc \in {"reading", "decoding", "rejected"}
      /\ cyc[c].pc = "rejected" => cyc[c].err.message # "MIN_DIMENSION"
      /\ cyc[c].canvas = NoCanvas
      /\ CallsOf(c) = <<>>
      /\ HostOf(c) = <<>>

\* The image of c has been decoded (img.onload has run)
Decoded(c) ==
  \/ cyc[c].pc \in {"encoding", "reading2", "sent"} /\ cyc[c].via = "file"
  \/ cyc[c].pc = "rejected" /\ cyc[c].err.kind \notin {"reader.onerror", "img.onerror"}

\* C7: a decoded image with width < 200 or height < 200 is rejected with
\* MIN_DIMENSION carrying the decoded width and height (the alert shows
\* them), no canvas is sized and nothing reaches the sink or the host; an
\* image with both dimensions >= 200 is never rejected for this reason.
C7_TooSmall ==
  \A c \in Cycles :
    Decoded(c) =>
      LET f == cyc[c].file
          small == f.w < 200 \/ f.h < 200
      IN  /\ small <=> (cyc[c].pc = "rejected" /\ cyc[c].err.message = "MIN_DIMENSION")
          /\ small =>
               /\ cyc[c].err.width = f.w
               /\ cyc[c].err.height = f.h
               /\ cyc[c].canvas = NoCanvas
               /\ CallsOf(c) = <<>>
               /\ HostOf(c) = <<>>
               /\ AlertsOf(c) = <<[kind |-> "tooSmall", width |-> f.w,
                                   height |-> f.h, min |-> 200, cyc |-> c]>>

C7_Witness ==
  \E c \in Cycles :
    /\ cyc[c].pc = "rejected"
    /\ cyc[c].err.message = "MIN_DIMENSION"
    /\ cyc[c].file.w < 200
    /\ cyc[c].file.h >= 200
    /\ cyc[c].err.width = cyc[c].file.w

\* round(a / b), halves up, in exact arithmetic
RoundHalfUp(a, b) == (2 * a + b) \div (2 * b)

\* The target size by the specification's algorithm in exact arithmetic
ExactResize(origW, origH, maxW, maxH) ==
  LET w1 == IF origW > maxW THEN maxW ELSE origW
      h1 == IF origW > maxW THEN RoundHalfUp(maxW * origH, origW) ELSE origH
  IN  IF h1 > maxH THEN [w |-> RoundHalfUp(maxH * origW, origH), h |-> maxH]
      ELSE [w |-> w1, h |-> h1]

\* C8: the target size the code computes is the one of the specification's
\* algorithm in exact arithmetic with halves rounded up.
C8_ExactTarget ==
  rz.done =>
    [w |-> rz.w, h |-> rz.h] = ExactResize(rz.origW, rz.origH, rz.maxW, rz.maxH)

\* C9: the target size is within both caps and within the original size, and
\* an image within both caps keeps its size.
C9_Bounded ==
  rz.done =>
    /\ rz.w <= rz.maxW
    /\ rz.h <= rz.maxH
    /\ rz.w <= rz.origW
    /\ rz.h <= rz.origH
    /\ (rz.origW <= rz.maxW /\ rz.origH <= rz.maxH) =>
         (rz.w = rz.origW /\ rz.h = rz.origH)

\* Both caps bind: the width step ran, then the height step recomputed the width
C9_Witness ==
  /\ rz.done
  /\ rz.origW > rz.maxW
  /\ rz.h = rz.maxH
  /\ rz.w < rz.maxW
  /\ rz.origH > rz.origW

\* C10: an emission made while neither SendMessage exists delivers nothing,
\* then or later; the cycle still completes without an alert or an error,
\* each call leaving only a warning.
C10_DroppedWithoutBridge ==
  \A c \in Cycles :
    (Sent(c) /\ cyc[c].sentVia = "none") =>
      /\ HostOf(c) = <<>>
      /\ AlertsOf(c) = <<>>
      /\ Len(ConsoleOf(c)) = Len(CallsOf(c))
      /\ \A i \in 1..Len(ConsoleOf(c)) : ConsoleOf(c)[i].level = "warn"

\* ... and the bridge has become ready since
C10_Witness ==
  \E c \in Cycles :
    /\ Sent(c)
    /\ cyc[c].sentVia = "none"
    /\ Len(CallsOf(c)) >= 3
    /\ HostOf(c) = <<>>
    /\ unityInstance

\* C11: a cycle that fails before emission (read error, decode error, small
\* image, null blob, error reading the blob) hands nothing to the sink and
\* delivers nothing to the host, reports the failure in one alert, and the
\* promise of sendFileToUnity is fulfilled; that promise is never rejected.
C11_FailureAborts ==
  \A c \in Cycles :
    cyc[c].via = "file" =>
      /\ cyc[c].promise # "rejected"
      /\ cyc[c].pc = "rejected" =>
           /\ CodeRejection(cyc[c].err)
           /\ CallsOf(c) = <<>>
           /\ HostOf(c) = <<>>
           /\ Len(AlertsOf(c)) = 1
           /\ cyc[c].promise = "fulfilled"

\* The encoder gave no blob while the bridge was ready
C11_Witness ==
  \E c \in Cycles :
    /\ cyc[c].pc = "rejected"
    /\ cyc[c].err.message = "Canvas toBlob returned null"
    /\ cyc[c].promise = "fulfilled"
    /\ unityInstance
    /\ host = <<>>

\* The OnCameraPermissionDenied notifications the host received for call p
DeniedOf(p) ==
  SelectSeq(host, LAMBDA m : m.method = "OnCameraPermissionDenied" /\ m.pick = p)

\* C12: when WebGLImagePicker_OpenCamera was called and getUserMedia was
\* refused, the host has received OnCameraPermissionDenied on ImageReceiver
\* exactly once for that call, and no alert was shown.
C12_DeniedNotified ==
  \A p \in Picks :
    (picks[p].fn = "camera" /\ picks[p].result = "refused") =>
      /\ Len(DeniedOf(p)) = 1
      /\ DeniedOf(p)[1].obj = "ImageReceiver"
      /\ alerts = <<>>

\* A cycle between the call of sendFileToUnity and its emission or rejection
InFlight(c) == cyc[c].pc \in {"reading", "decoding", "encoding", "reading2"}

\* C13: at most one cycle is in flight: a step that leaves a later cycle
\* started leaves no earlier cycle in flight (its state is discarded), and an
\* earlier cycle that was in flight delivers nothing to the host in it.
C13_SingleFlight ==
  [][\A c, d \in DOMAIN cyc :
       (c < d /\ InFlight(c) /\ cyc'[d].pc # "idle") =>
         (~InFlight(c)' /\ HostOf(c)' = HostOf(c))]_vars

\* The entries of a log (calls or host) that belong to one cycle lie together
Contiguous(log) ==
  \A i, j \in 1..Len(log) :
    (i < j /\ log[i].cyc = log[j].cyc /\ log[i].cyc # 0) =>
      \A k \in i..j : log[k].cyc = log[i].cyc

\* C16: the calls of an emission, and what the host receives of them, are
\* never interleaved with those of another cycle: each cycle's chunks lie
\* together and are followed by that cycle's own completion.
C16_EmissionAtomic ==
  /\ Contiguous(calls)
  /\ Contiguous(host)
  /\ \A c \in DOMAIN cyc :
       /\ CallsOf(c) # <<>> =>
            CallsOf(c)[Len(CallsOf(c))].fn = "notifyUnityComplete"
       /\ Delivered(c) =>
            /\ HostOf(c)[Len(HostOf(c))].method = UNITY_METHOD_DONE
            /\ Len(HostDonesOf(c)) = 1

\* Two delivered emissions of several chunks, the cycle picked later first
C16_Witness ==
  \E c, d \in DOMAIN cyc :
    /\ c < d
    /\ Delivered(c) /\ Delivered(d)
    /\ Len(HostChunksOf(c)) >= 2
    /\ Len(HostChunksOf(d)) >= 2
    /\ host[1].cyc = d
    /\ host[Len(host)].cyc = c

\* C15: a request for a missing file is answered 404 and no file is sent; for
\* an existing file whose name ends in .gz the handler sets Content-Encoding:
\* gzip and a Content-Type; for an existing file of any other name it sets
\* no header.
C15_BuildHeaders ==
  srv.done =>
    /\ ~srv.exists => (srv.status = 404 /\ ~srv.sent)
    /\ (srv.exists /\ endsWith(srv.file, ".gz")) =>
         /\ srv.sent
         /\ <<"Content-Encoding", "gzip">> \in srv.headers
         /\ \E h \in srv.headers : h[1] = "Content-Type"
    /\ (srv.exists /\ ~endsWith(srv.file, ".gz")) =>
         (srv.sent /\ srv.headers = {})

\* C17: for an image that passes the minimum-dimension test the computed
\* target width and height are both at least 1.
C17_PositiveTarget ==
  (rz.done /\ rz.origW >= 200 /\ rz.origH >= 200) => (rz.w >= 1 /\ rz.h >= 1)

\* Images over both default caps whose scaled height is a half-integer
DivergingImages == {<<1536, 1467>>, <<2048, 1564>>}

\* C20: there are images over both default caps, those of DivergingImages,
\* for which the target the code computes is not the target of the symmetric
\* min-scale-factor computation.
C20_DiffersFromSymmetric ==
  (rz.done /\ <<rz.origW, rz.origH>> \in DivergingImages) =>
    /\ rz.origW > MAX_WIDTH /\ rz.origH > MAX_HEIGHT
    /\ rz.maxW = MAX_WIDTH /\ rz.maxH = MAX_HEIGHT
    /\ [w |-> rz.w, h |-> rz.h] #
         ResizeDims_Symmetric(rz.origW, rz.origH, rz.maxW, rz.maxH)

C20_Witness ==
  /\ rz.done
  /\ rz.origW > rz.maxW
  /\ rz.origH > rz.maxH
  /\ [w |-> rz.w, h |-> rz.h] #
       ResizeDims_Symmetric(rz.origW, rz.origH, rz.maxW, rz.maxH)

\* C18: once an interaction has ended (the file was processed, processing
\* failed, the change event brought no file, or the dialog was dismissed) the
\* input that openFileInput created for it is no longer attached; the inputs
\* still attached are those of the interactions in progress.
C18_InputDiscarded ==
  /\ \A p \in Picks : picks[p].pc = "done" => picks[p].input # "attached"
  /\ Cardinality({p \in Picks : picks[p].input = "attached"})
       <= Cardinality({p \in Picks : picks[p].pc \in {"dialog", "processing"}})

\* C19: OpenCamera opens the file dialog only when permission was granted in
\* the call or cached, and not in a call where it was refused; OpenGallery
\* opens it whatever the outcome; a call requests permission exactly when no
\* earlier request had been granted by then, so a refusal is not cached and a
\* grant is.
C19_PermissionGate ==
  /\ cameraPermissionChecked <=> Grants > 0
  /\ \A p \in Picks :
       picks[p].pc # "idle" =>
         /\ picks[p].asked <=> picks[p].grantsBefore = 0
         /\ picks[p].result = "cached" <=> (picks[p].pc # "asking" /\ ~picks[p].asked)
         /\ picks[p].pc = "asking" => picks[p].input = "none"
         /\ picks[p].fn = "camera" =>
              /\ picks[p].input # "none" => picks[p].result \in {"granted", "cached"}
              /\ picks[p].result = "refused" =>
                   (picks[p].input = "none" /\ picks[p].pc = "done")
              /\ picks[p].input # "none" => picks[p].capture
         /\ picks[p].fn = "gallery" =>
              /\ picks[p].result \in {"granted", "cached", "refused"} =>
                   picks[p].input # "none"
              /\ ~picks[p].capture

\* A gallery call opened its dialog although permission was refused, and the
\* next call asked again, was granted, and opened the camera dialog
C19_Witness ==
  /\ picks[1].fn = "gallery"
  /\ picks[1].result = "refused"
  /\ picks[1].input = "attached"
  /\ picks[2].fn = "camera"
  /\ picks[2].grantsBefore = 0
  /\ picks[2].asked
  /\ picks[2].result = "granted"
  /\ picks[2].input = "attached"

====
